---------------------------- MODULE Spec2Model ----------------------------
(***************************************************************************)
(* A model of the filename-driven search tool (main.go).                   *)
(*                                                                         *)
(* Strings are sequences of bytes (0..255), as Go strings are; []rune      *)
(* values are sequences of code points.  The conversions between the two   *)
(* ([]rune(s), string(runes)) are modelled by what Go does: UTF-8 decoding *)
(* with U+FFFD for every byte that starts no valid encoding, and UTF-8     *)
(* encoding.                                                               *)
(*                                                                         *)
(* Five specifications share the variables:                                *)
(*   SpecParse    ParseArgs as a function of (args, execPath)              *)
(*   SpecSnippet  extractSnippet as a function of (lineRunes, query, n)    *)
(*   SpecSearch   SearchStream, one step per line the scanner delivers     *)
(*   SpecCap      SearchStream on streams of more than MaxSnippets lines   *)
(*   SpecRun      Run, from the raw argument list to the exit code         *)
(***************************************************************************)
EXTENDS Integers, Sequences, FiniteSets

VARIABLES
    pc,           \* control position of the operation under way
    ctxArgs,      \* AppContext.Args
    execPath,     \* ParseArgs's execPath / AppContext.ExecPath
    args,         \* ParseArgs's args (the positional arguments)
    config,       \* the *Config ParseArgs returned: <<>> for nil, <<c>> for &c
    err,          \* the error kind last returned ("nil" when none)
    outputFile,   \* the value of the -o flag
    reader,       \* the content of the io.Reader SearchStream scans
    scanned,      \* number of lines scanner.Scan() has delivered
    queries,      \* SearchStream's queries parameter
    contextSize,  \* SearchStream's / extractSnippet's contextSize parameter
    results,      \* SearchStream's results map: query -> SearchResult (no key: nil)
    lineRunes,    \* extractSnippet's lineRunes parameter
    query,        \* extractSnippet's query parameter
    snippet,      \* the string extractSnippet returned
    stdout,       \* lines written to ctx.Stdout
    stderr,       \* messages logged to ctx.Stderr
    outFile,      \* the -o file: [created, content]
    handles,      \* per handle ("out", "in"): [opened, closed] counts
    defers,       \* Run's stack of deferred Close calls
    exitCode      \* the int Run returned, once pc = "exited"

vars == <<pc, ctxArgs, execPath, args, config, err, outputFile, reader,
          scanned, queries, contextSize, results, lineRunes, query, snippet,
          stdout, stderr, outFile, handles, defers, exitCode>>

Nil == "nil"

-----------------------------------------------------------------------------
(* Bytes the program's own code names, and the ones the inputs are built of *)

Underscore == 95
Dot        == 46
Slash      == 47
Newline    == 10
CR         == 13
Minus      == 45
Equals     == 61

\* Go's int on a 32-bit build (GOARCH=386, arm): TLC's own integers are 32 bits
\* wide, so this is the width whose wrap-around can be computed exactly.  On a
\* 64-bit build the same arithmetic wraps at 2^63 - 1.
MaxInt == 2147483647
MinInt == -MaxInt - 1

MaxSnippets        == 10
DefaultContextSize == 20

\* U+FFFD, what a byte that starts no valid UTF-8 encoding decodes to
RuneError == 65533

-----------------------------------------------------------------------------
(* Bounds of the model                                                     *)

MaxPathLen     == 5   \* SpecParse: bytes in an executable path
MaxSnipLineLen == 4   \* SpecSnippet: runes in a line
MaxSnipQryLen  == 2   \* SpecSnippet: bytes in a query
MaxSmallCtx    == 3   \* SpecSnippet: the small context widths are 0..MaxSmallCtx
MaxNameLen     == 3   \* SpecSearch: bytes of the executable name after "x_"
MaxReaderLen   == 4   \* SpecSearch: bytes of the input stream
MaxRunReaderLen == 3  \* SpecRun: bytes of the input file
MaxCapLines    == 11  \* SpecCap: lines of the input stream

-----------------------------------------------------------------------------
(* Sequences                                                               *)

\* All sequences over S of length at most n
SeqsUpTo(S, n) == UNION {[1..k -> S] : k \in 0..n}

Range(s) == {s[i] : i \in DOMAIN s}

\* s[from:to] of Go, 0-based, to exclusive
Slice(s, from, to) == SubSeq(s, from + 1, to)

\* Go's int addition: two's complement wrap-around at the int width
AddInt(a, b) ==
    IF a >= 0 /\ b >= 0 /\ a > MaxInt - b THEN (a - MaxInt) + (b - MaxInt) - 2
    ELSE IF a < 0 /\ b < 0 /\ a < MinInt - b THEN (a + MaxInt) + (b + MaxInt) + 2
    ELSE a + b

\* strings.Index(s, sub): the 0-based byte offset of the leftmost occurrence, -1
RECURSIVE IndexFrom(_, _, _)
IndexFrom(s, sub, i) ==
    IF i + Len(sub) > Len(s) THEN -1
    ELSE IF Slice(s, i, i + Len(sub)) = sub THEN i
    ELSE IndexFrom(s, sub, i + 1)

\* strings.Contains(s, substr): a byte-wise search
Contains(s, substr) == IndexFrom(s, substr, 0) >= 0

-----------------------------------------------------------------------------
(* ParseArgs                                                               *)

\* filepath.Base (with "/" the separator, as on Unix): trailing separators
\* dropped, then the last element
RECURSIVE StripTrailingSlashes(_)
StripTrailingSlashes(p) ==
    IF Len(p) > 0 /\ p[Len(p)] = Slash
    THEN StripTrailingSlashes(SubSeq(p, 1, Len(p) - 1))
    ELSE p

RECURSIVE LastElement(_, _)
LastElement(p, i) ==
    IF i >= 1 /\ p[i] # Slash THEN LastElement(p, i - 1)
    ELSE SubSeq(p, i + 1, Len(p))

Base(path) ==
    IF path = <<>> THEN <<Dot>>
    ELSE LET stripped == StripTrailingSlashes(path)
             last     == LastElement(stripped, Len(stripped))
         IN  IF last = <<>> THEN <<Slash>> ELSE last

\* filepath.Ext: the suffix from the final dot of the final element
RECURSIVE ExtFrom(_, _)
ExtFrom(p, i) ==
    IF i >= 1 /\ p[i] # Slash
    THEN IF p[i] = Dot THEN SubSeq(p, i, Len(p)) ELSE ExtFrom(p, i - 1)
    ELSE <<>>

Ext(path) == ExtFrom(path, Len(path))

\* strings.Split(s, sep) for a one-byte separator
RECURSIVE Split(_, _)
Split(s, sep) ==
    LET i == IndexFrom(s, <<sep>>, 0)
    IN  IF i < 0 THEN <<s>>
        ELSE <<Slice(s, 0, i)>> \o Split(Slice(s, i + 1, Len(s)), sep)

\* The loop that keeps the queries that are not ""
ValidQueries(qs) == SelectSeq(qs, LAMBDA q : q # <<>>)

ParseArgs_KeepsEmpty(as, path) ==
    IF Len(as) < 1 THEN [config |-> <<>>, err |-> "missing input"]
    ELSE
    LET baseName       == Base(path)
        ext            == Ext(baseName)
        nameWithoutExt == Slice(baseName, 0, Len(baseName) - Len(ext))
        parts          == Split(nameWithoutExt, Underscore)
    IN  IF Len(parts) < 2
        THEN [config |-> <<>>, err |-> "invalid name format"]
        ELSE [config |-> <<[InputFilePath |-> as[1],
                            Queries       |-> Tail(parts),
                            ContextSize   |-> DefaultContextSize]>>,
              err    |-> Nil]

ParseArgs_KeepsAppName(as, path) ==
    IF Len(as) < 1 THEN [config |-> <<>>, err |-> "missing input"]
    ELSE
    LET baseName       == Base(path)
        ext            == Ext(baseName)
        nameWithoutExt == Slice(baseName, 0, Len(baseName) - Len(ext))
        parts          == Split(nameWithoutExt, Underscore)
    IN  IF Len(parts) < 2
        THEN [config |-> <<>>, err |-> "invalid name format"]
        ELSE
        LET validQueries == ValidQueries(parts)
        IN  IF Len(validQueries) = 0
            THEN [config |-> <<>>, err |-> "no queries"]
            ELSE [config |-> <<[InputFilePath |-> as[1],
                                Queries       |-> validQueries,
                                ContextSize   |-> DefaultContextSize]>>,
                  err    |-> Nil]

ParseArgs(as, path) ==
    IF Len(as) < 1 THEN [config |-> <<>>, err |-> "missing input"]
    ELSE
    LET inputFile      == as[1]
        baseName       == Base(path)
        ext            == Ext(baseName)
        nameWithoutExt == Slice(baseName, 0, Len(baseName) - Len(ext))
        parts          == Split(nameWithoutExt, Underscore)
    IN  IF Len(parts) < 2
        THEN [config |-> <<>>, err |-> "invalid name format"]
        ELSE
        LET validQueries == ValidQueries(Tail(parts))
        IN  IF Len(validQueries) = 0
            THEN [config |-> <<>>, err |-> "no queries"]
            ELSE [config |-> <<[InputFilePath |-> inputFile,
                                Queries       |-> validQueries,
                                ContextSize   |-> DefaultContextSize]>>,
                  err    |-> Nil]

-----------------------------------------------------------------------------
(* []rune(s) and string(runes)                                             *)

IsCont(b) == b >= 128 /\ b <= 191

\* The second byte's accepted range for a lead byte (utf8.acceptRanges)
SecondLo(b0) == IF b0 = 224 THEN 160 ELSE IF b0 = 240 THEN 144 ELSE 128
SecondHi(b0) == IF b0 = 237 THEN 159 ELSE IF b0 = 244 THEN 143 ELSE 191

\* Bytes of the encoding a lead byte announces; 0 for a byte that leads none
SeqLen(b0) ==
    IF b0 < 128 THEN 1
    ELSE IF b0 >= 194 /\ b0 <= 223 THEN 2
    ELSE IF b0 >= 224 /\ b0 <= 239 THEN 3
    ELSE IF b0 >= 240 /\ b0 <= 244 THEN 4
    ELSE 0

\* utf8.DecodeRuneInString at byte i (1-based): [r |-> rune, size |-> bytes used]
DecodeRune(s, i) ==
    LET b0 == s[i]
        n  == SeqLen(b0)
        invalid == [r |-> RuneError, size |-> 1]
    IN  IF n = 1 THEN [r |-> b0, size |-> 1]
        ELSE IF n = 0 \/ i + n - 1 > Len(s) THEN invalid
        ELSE IF s[i + 1] < SecondLo(b0) \/ s[i + 1] > SecondHi(b0) THEN invalid
        ELSE IF n = 2
             THEN [r |-> (b0 % 32) * 64 + (s[i + 1] % 64), size |-> 2]
        ELSE IF ~IsCont(s[i + 2]) THEN invalid
        ELSE IF n = 3
             THEN [r |-> (b0 % 16) * 4096 + (s[i + 1] % 64) * 64 + (s[i + 2] % 64),
                   size |-> 3]
        ELSE IF ~IsCont(s[i + 3]) THEN invalid
        ELSE [r |-> (b0 % 8) * 262144 + (s[i + 1] % 64) * 4096
                      + (s[i + 2] % 64) * 64 + (s[i + 3] % 64),
              size |-> 4]

\* []rune(s)
RECURSIVE RunesFrom(_, _)
RunesFrom(s, i) ==
    IF i > Len(s) THEN <<>>
    ELSE LET d == DecodeRune(s, i) IN <<d.r>> \o RunesFrom(s, i + d.size)

Runes(s) == RunesFrom(s, 1)

\* utf8.EncodeRune: surrogates and out-of-range values encode as U+FFFD
EncodeRune(r) ==
    IF r >= 0 /\ r < 128 THEN <<r>>
    ELSE IF r >= 128 /\ r < 2048 THEN <<192 + (r \div 64), 128 + (r % 64)>>
    ELSE IF r < 0 \/ r > 1114111 \/ (r >= 55296 /\ r <= 57343)
         THEN <<239, 191, 189>>
    ELSE IF r < 65536
         THEN <<224 + (r \div 4096), 128 + ((r \div 64) % 64), 128 + (r % 64)>>
    ELSE <<240 + (r \div 262144), 128 + ((r \div 4096) % 64),
           128 + ((r \div 64) % 64), 128 + (r % 64)>>

\* string(runes)
RECURSIVE String(_)
String(rs) == IF rs = <<>> THEN <<>> ELSE EncodeRune(Head(rs)) \o String(Tail(rs))

-----------------------------------------------------------------------------
(* extractSnippet                                                          *)

\* The search loop: the first i in 0..lineLen-qLen at which every rune of the
\* query matches, -1 when there is none
RECURSIVE RuneIndex(_, _, _)
RuneIndex(lr, qr, i) ==
    IF i > Len(lr) - Len(qr) THEN -1
    ELSE IF \A j \in 0..(Len(qr) - 1) : lr[i + j + 1] = qr[j + 1] THEN i
    ELSE RuneIndex(lr, qr, i + 1)

\* The result of extractSnippet: the string returned, or a panic (the slice
\* expression lineRunes[start:end] with end < start).  idx - contextSize is
\* computed as idx + (-contextSize): every caller passes contextSize >= 0.
ExtractSnippet(lr, q, n) ==
    LET queryRunes == Runes(q)
        qLen       == Len(queryRunes)
        lineLen    == Len(lr)
        idx        == RuneIndex(lr, queryRunes, 0)
    IN  IF idx = -1 THEN [panic |-> FALSE, str |-> <<>>]
        ELSE
        LET start0 == AddInt(idx, -n)
            start  == IF start0 < 0 THEN 0 ELSE start0
            end0   == AddInt(AddInt(idx, qLen), n)
            end    == IF end0 > lineLen THEN lineLen ELSE end0
        IN  IF start > end \/ end < 0
            THEN [panic |-> TRUE, str |-> <<>>]
            ELSE [panic |-> FALSE, str |-> String(Slice(lr, start, end))]

-----------------------------------------------------------------------------
(* SearchStream                                                            *)

\* bufio.ScanLines: the lines of the content, the newline and one trailing
\* carriage return dropped; a final line without a newline counts when not empty
DropCR(l) == IF Len(l) > 0 /\ l[Len(l)] = CR THEN SubSeq(l, 1, Len(l) - 1) ELSE l

RECURSIVE ScanLines(_)
ScanLines(data) ==
    IF data = <<>> THEN <<>>
    ELSE LET i == IndexFrom(data, <<Newline>>, 0)
         IN  IF i < 0 THEN <<DropCR(data)>>
             ELSE <<DropCR(Slice(data, 0, i))>>
                  \o ScanLines(Slice(data, i + 1, Len(data)))

\* results := make(map...); results[q] = &SearchResult{Query: q} for each query
NewResults(qs) ==
    [q \in Range(qs) |-> [Query |-> q, Count |-> 0, Snippets |-> <<>>]]

\* Whether the line gets one more snippet for a query whose list has length len
NeedsSnippet(len) == len < MaxSnippets

\* The body of the scan loop from query number k on.  st is
\* [results, lineRunes, panic]: lineRunes is <<>> (nil) until the line is
\* converted, <<runes>> from then on.
RECURSIVE ScanQueries(_, _, _, _, _)
ScanQueries(st, lineText, qs, n, k) ==
    IF k > Len(qs) \/ st.panic THEN st
    ELSE
    LET q == qs[k]
    IN  IF ~Contains(lineText, q) THEN ScanQueries(st, lineText, qs, n, k + 1)
        ELSE
        LET res     == st.results[q]
            counted == [st.results EXCEPT ![q].Count = res.Count + 1]
        IN  IF ~NeedsSnippet(Len(res.Snippets))
            THEN ScanQueries([st EXCEPT !.results = counted], lineText, qs, n, k + 1)
            ELSE
            LET lr == IF st.lineRunes = <<>> THEN <<Runes(lineText)>> ELSE st.lineRunes
                s  == ExtractSnippet(lr[1], q, n)
            IN  IF s.panic
                THEN [results |-> counted, lineRunes |-> lr, panic |-> TRUE]
                ELSE ScanQueries(
                         [results   |-> [counted EXCEPT ![q].Snippets = Append(@, s.str)],
                          lineRunes |-> lr,
                          panic     |-> FALSE],
                         lineText, qs, n, k + 1)

\* One iteration of for scanner.Scan() { ... }
ScanLine(res, lineText, qs, n) ==
    ScanQueries([results |-> res, lineRunes |-> <<>>, panic |-> FALSE],
                lineText, qs, n, 1)

-----------------------------------------------------------------------------
(* WriteResults                                                            *)

\* One line of output: its kind, and the number and the text printed in it
OutLine(kind, num, text) == [kind |-> kind, num |-> num, text |-> text]

\* The snippet lines "%d:%s\n" of a result, from number i on
RECURSIVE SnippetLines(_, _)
SnippetLines(snips, i) ==
    IF i > Len(snips) THEN <<>>
    ELSE <<OutLine("snippet", i, snips[i])>> \o SnippetLines(snips, i + 1)

\* The lines one iteration of WriteResults's loop prints for a result
Block(res) ==
    <<OutLine("header", 0, res.Query), OutLine("count", res.Count, <<>>)>>
    \o SnippetLines(res.Snippets, 1)
    \o <<OutLine("separator", 0, <<>>)>>

RECURSIVE WriteResults_SkipsUnmatched(_, _)
WriteResults_SkipsUnmatched(res, queryOrder) ==
    IF queryOrder = <<>> THEN <<>>
    ELSE LET q == Head(queryOrder)
         IN  (IF q \notin DOMAIN res \/ res[q].Count = 0 THEN <<>> ELSE Block(res[q]))
             \o WriteResults_SkipsUnmatched(res, Tail(queryOrder))

\* What WriteResults writes to w
RECURSIVE WriteResults(_, _)
WriteResults(res, queryOrder) ==
    IF queryOrder = <<>> THEN <<>>
    ELSE LET q == Head(queryOrder)
         IN  (IF q \notin DOMAIN res THEN <<>> ELSE Block(res[q]))
             \o WriteResults(res, Tail(queryOrder))

-----------------------------------------------------------------------------
(* Flag parsing: fs.Parse(args) with the flags -o (string) and -n (int)    *)

FlagO == <<111>>    \* "o"
FlagN == <<110>>    \* "n"

\* The decimal digits of MaxInt, and of MaxInt + 1
MaxIntDigits  == <<2, 1, 4, 7, 4, 8, 3, 6, 4, 7>>
MinIntDigits  == <<2, 1, 4, 7, 4, 8, 3, 6, 4, 8>>

IsDigits(body, base) ==
    /\ \A i \in DOMAIN body : body[i] >= 48 /\ body[i] < 48 + base
DigitsOf(body) == [i \in DOMAIN body |-> body[i] - 48]

\* a <= b for two digit strings of the same length
RECURSIVE DigitsLeq(_, _)
DigitsLeq(a, b) ==
    IF a = <<>> THEN TRUE
    ELSE IF Head(a) # Head(b) THEN Head(a) < Head(b)
    ELSE DigitsLeq(Tail(a), Tail(b))

RECURSIVE StripZeros(_)
StripZeros(d) == IF d # <<>> /\ Head(d) = 0 THEN StripZeros(Tail(d)) ELSE d

RECURSIVE ValueOf(_, _, _)
ValueOf(d, base, acc) ==
    IF d = <<>> THEN acc ELSE ValueOf(Tail(d), base, acc * base + Head(d))

\* strconv.ParseInt(s, 0, strconv.IntSize) for the inputs of the model: an
\* optional sign, then decimal digits, or octal digits after a leading 0.
\* (The prefixes 0x, 0o, 0b and underscores do not occur in them.)
\* [ok |-> parsed, v |-> value]
ParseInt(str) ==
    LET signed == str # <<>> /\ str[1] \in {43, Minus}
        neg    == str # <<>> /\ str[1] = Minus
        body   == IF signed THEN Tail(str) ELSE str
        octal  == body # <<>> /\ body[1] = 48
        base   == IF octal THEN 8 ELSE 10
        digs   == IF octal THEN Tail(body) ELSE body
        bad    == [ok |-> FALSE, v |-> 0]
    IN  IF body = <<>> \/ ~IsDigits(digs, base) THEN bad
        ELSE IF octal
        THEN (IF Len(StripZeros(DigitsOf(digs))) > 10 THEN bad
              ELSE [ok |-> TRUE,
                    v  |-> IF neg THEN -ValueOf(DigitsOf(digs), 8, 0)
                                  ELSE ValueOf(DigitsOf(digs), 8, 0)])
        ELSE
        LET d == StripZeros(DigitsOf(digs))
        IN  IF Len(d) > 10 THEN bad
            ELSE IF Len(d) = 10 /\ ~DigitsLeq(d, IF neg THEN MinIntDigits ELSE MaxIntDigits)
            THEN bad
            ELSE IF Len(d) = 10 /\ d = MinIntDigits THEN [ok |-> TRUE, v |-> MinInt]
            ELSE [ok |-> TRUE,
                  v  |-> IF neg THEN -ValueOf(d, 10, 0) ELSE ValueOf(d, 10, 0)]

\* The index of the first "=" of a flag name after its first byte, 0 if none
RECURSIVE EqualsAt(_, _)
EqualsAt(name, i) ==
    IF i > Len(name) THEN 0
    ELSE IF name[i] = Equals THEN i
    ELSE EqualsAt(name, i + 1)

\* FlagSet.Parse: parseOne until the first argument that is no flag.
\* f is [err, o, n, rest]: the error, the values of -o and -n, fs.Args()
RECURSIVE ParseFlags(_, _)
ParseFlags(f, a) ==
    IF a = <<>> THEN [f EXCEPT !.rest = a]
    ELSE
    LET s0 == a[1]
    IN  IF Len(s0) < 2 \/ s0[1] # Minus THEN [f EXCEPT !.rest = a]
        ELSE
        LET numMinuses == IF s0[2] = Minus THEN 2 ELSE 1
            name0      == SubSeq(s0, numMinuses + 1, Len(s0))
        IN  IF numMinuses = 2 /\ Len(s0) = 2 THEN [f EXCEPT !.rest = Tail(a)]
            ELSE IF name0 = <<>> \/ name0[1] \in {Minus, Equals}
            THEN [f EXCEPT !.err = "bad flag syntax"]
            ELSE
            LET eq       == EqualsAt(name0, 2)
                name     == IF eq = 0 THEN name0 ELSE SubSeq(name0, 1, eq - 1)
                inline   == eq # 0
                rest1    == Tail(a)
                hasValue == inline \/ rest1 # <<>>
                value    == IF inline THEN SubSeq(name0, eq + 1, Len(name0))
                            ELSE IF rest1 # <<>> THEN rest1[1] ELSE <<>>
                rest2    == IF ~inline /\ rest1 # <<>> THEN Tail(rest1) ELSE rest1
            IN  IF name \notin {FlagO, FlagN}
                THEN [f EXCEPT !.err = "flag provided but not defined"]
                ELSE IF ~hasValue THEN [f EXCEPT !.err = "flag needs an argument"]
                ELSE IF name = FlagO THEN ParseFlags([f EXCEPT !.o = value], rest2)
                ELSE IF ~ParseInt(value).ok THEN [f EXCEPT !.err = "invalid value"]
                ELSE ParseFlags([f EXCEPT !.n = ParseInt(value).v], rest2)

\* fs := flag.NewFlagSet(...); fs.String("o", "", ...); fs.Int("n", 20, ...)
NewFlagSet == [err |-> Nil, o |-> <<>>, n |-> DefaultContextSize, rest |-> <<>>]

-----------------------------------------------------------------------------
(* Run                                                                     *)

\* defer f.Close()
DeferClose_InputOnly(stack, h) == IF h = "out" THEN stack ELSE Append(stack, h)

DeferClose(stack, h) == Append(stack, h)

\* The deferred calls run, last first, as Run returns or panics
RECURSIVE RunDeferred(_, _)
RunDeferred(hs, stack) ==
    IF stack = <<>> THEN hs
    ELSE RunDeferred([hs EXCEPT ![stack[Len(stack)]].closed = @ + 1],
                     SubSeq(stack, 1, Len(stack) - 1))

\* config.ContextSize = *contextSize
ApplyContextSize_Forgotten(cfg, n) == cfg

ApplyContextSize(cfg, n) == [cfg EXCEPT !.ContextSize = n]

-----------------------------------------------------------------------------
(* Values the variables of an operation hold while another one is modelled *)

NoFile == [created |-> FALSE, content |-> <<>>]
NoHandles == [h \in {"out", "in"} |-> [opened |-> 0, closed |-> 0]]

IdleParse ==
    /\ execPath = <<>> /\ args = <<>> /\ config = <<>>

IdleSearch ==
    /\ reader = <<>> /\ scanned = 0
    /\ queries = <<>> /\ results = <<>>

IdleSnippet ==
    /\ lineRunes = <<>> /\ query = <<>> /\ snippet = <<>>

IdleRun ==
    /\ ctxArgs = <<>> /\ outputFile = <<>> /\ stdout = <<>> /\ stderr = <<>>
    /\ outFile = NoFile /\ handles = NoHandles /\ defers = <<>> /\ exitCode = 0

parseVars   == <<execPath, args, config>>
searchVars  == <<reader, scanned, queries, results>>
snippetVars == <<lineRunes, query, snippet>>
runVars     == <<ctxArgs, outputFile, stdout, stderr, outFile, handles, defers,
                 exitCode>>

-----------------------------------------------------------------------------
(* SpecParse: ParseArgs on every executable path of up to MaxPathLen bytes *)

PathBytes == {97, 98, Underscore, Dot, Slash}      \* a b _ . /
InputName == <<105, 110>>                          \* "in"
OtherName == <<120>>                               \* "x"
ArgLists  == {<<>>, <<InputName>>, <<OtherName, InputName>>}

InitParse ==
    /\ pc = "ParseArgs"
    /\ execPath \in SeqsUpTo(PathBytes, MaxPathLen)
    /\ args \in ArgLists
    /\ config = <<>> /\ err = Nil
    /\ contextSize = 0
    /\ IdleSearch /\ IdleSnippet /\ IdleRun

CallParseArgs ==
    /\ pc = "ParseArgs"
    /\ LET r == ParseArgs(args, execPath)
       IN  config' = r.config /\ err' = r.err
    /\ pc' = "parsed"
    /\ UNCHANGED <<execPath, args, contextSize, searchVars, snippetVars, runVars>>

NextParse == CallParseArgs

SpecParse == InitParse /\ [][NextParse]_vars

-----------------------------------------------------------------------------
(* SpecSnippet: extractSnippet on every line of up to MaxSnipLineLen runes *)

SnipRunes   == {97, 98, 233}                       \* a b U+00E9
QueryBytes  == {97, 98, 195, 169}                  \* a b 0xC3 0xA9
SnipQueries == SeqsUpTo(QueryBytes, MaxSnipQryLen) \ {<<>>}
SnipWidths  == (0..MaxSmallCtx) \cup {MaxInt - 1, MaxInt}

InitSnippet ==
    /\ pc = "extractSnippet"
    /\ lineRunes \in SeqsUpTo(SnipRunes, MaxSnipLineLen)
    /\ query \in SnipQueries
    /\ contextSize \in SnipWidths
    /\ snippet = <<>> /\ err = Nil
    /\ IdleParse /\ IdleSearch /\ IdleRun

CallExtractSnippet ==
    /\ pc = "extractSnippet"
    /\ LET r == ExtractSnippet(lineRunes, query, contextSize)
       IN  /\ snippet' = r.str
           /\ pc' = IF r.panic THEN "panic" ELSE "returned"
    /\ UNCHANGED <<lineRunes, query, contextSize, err, parseVars, searchVars,
                   runVars>>

NextSnippet == CallExtractSnippet

SpecSnippet == InitSnippet /\ [][NextSnippet]_vars

-----------------------------------------------------------------------------
(* SpecSearch: SearchStream on every stream of up to MaxReaderLen bytes,   *)
(* for the query lists ParseArgs derives from the names "x_..."            *)

\* SearchStream's first lines: the results map, one zero entry per query
SearchStart ==
    /\ pc = "SearchStream"
    /\ results' = NewResults(queries)
    /\ scanned' = 0
    /\ pc' = "scan"
    /\ UNCHANGED <<reader, queries, contextSize, err, parseVars, snippetVars,
                   runVars>>

\* scanner.Scan() delivers the next line and the loop body runs on it
ScanNext ==
    /\ pc = "scan"
    /\ scanned < Len(ScanLines(reader))
    /\ LET st == ScanLine(results, ScanLines(reader)[scanned + 1], queries,
                          contextSize)
       IN  /\ results' = st.results
           /\ pc' = IF st.panic THEN "panic" ELSE "scan"
    /\ scanned' = scanned + 1
    /\ UNCHANGED <<reader, queries, contextSize, err, parseVars, snippetVars,
                   runVars>>

\* The reader ends in io.EOF: scanner.Err() is nil, the results are returned
ScanEOF ==
    /\ pc = "scan"
    /\ scanned = Len(ScanLines(reader))
    /\ err' = Nil
    /\ pc' = "searched"
    /\ UNCHANGED <<reader, scanned, queries, contextSize, results, parseVars,
                   snippetVars, runVars>>

\* The reader ends in an I/O error (the scanner has delivered what was read
\* before it as lines): scanner.Err() is not nil, SearchStream returns nil
ScanError ==
    /\ pc = "scan"
    /\ scanned = Len(ScanLines(reader))
    /\ err' = "stream read error"
    /\ results' = <<>>
    /\ pc' = "searched"
    /\ UNCHANGED <<reader, scanned, queries, contextSize, parseVars,
                   snippetVars, runVars>>

NameBytes   == {97, Underscore, 195, 169}          \* a _ 0xC3 0xA9
ReaderBytes == {97, Newline, 195, 169}             \* a \n 0xC3 0xA9
SearchWidths == {0, 1, MaxInt}

\* The executable names "x_" followed by up to MaxNameLen bytes
SearchExecNames ==
    {<<120, Underscore>> \o t : t \in SeqsUpTo(NameBytes, MaxNameLen)}

\* The query lists ParseArgs returns for them
SearchQueryLists ==
    {ParseArgs(<<InputName>>, p).config[1].Queries :
        p \in {x \in SearchExecNames : ParseArgs(<<InputName>>, x).err = Nil}}

InitSearch ==
    /\ pc = "SearchStream"
    /\ queries \in SearchQueryLists
    /\ contextSize \in SearchWidths
    /\ reader \in SeqsUpTo(ReaderBytes, MaxReaderLen)
    /\ scanned = 0 /\ results = <<>> /\ err = Nil
    /\ IdleParse /\ IdleSnippet /\ IdleRun

NextSearch == SearchStart \/ ScanNext \/ ScanEOF \/ ScanError

SpecSearch == InitSearch /\ [][NextSearch]_vars

-----------------------------------------------------------------------------
(* SpecCap: SearchStream on every stream of up to MaxCapLines lines, each  *)
(* "a" or "ba", for the queries of "x_a", "x_a_b" and "x_a_a", width 1     *)

CapLines == {<<97>>, <<98, 97>>}

\* The stream of the lines, a newline after each
RECURSIVE JoinLines(_)
JoinLines(ls) ==
    IF ls = <<>> THEN <<>> ELSE Head(ls) \o <<Newline>> \o JoinLines(Tail(ls))

CapExecNames ==
    { <<120, Underscore, 97>>,
      <<120, Underscore, 97, Underscore, 98>>,
      <<120, Underscore, 97, Underscore, 97>> }

InitCap ==
    /\ pc = "SearchStream"
    /\ queries \in {ParseArgs(<<InputName>>, p).config[1].Queries : p \in CapExecNames}
    /\ contextSize = 1
    /\ reader \in {JoinLines(ls) : ls \in SeqsUpTo(CapLines, MaxCapLines)}
    /\ scanned = 0 /\ results = <<>> /\ err = Nil
    /\ IdleParse /\ IdleSnippet /\ IdleRun

SpecCap == InitCap /\ [][NextSearch]_vars

-----------------------------------------------------------------------------
(* SpecRun: Run on a table of argument lists and executable paths, every   *)
(* input file of up to MaxRunReaderLen bytes, FileCreator and FileReader   *)
(* free to fail                                                            *)

\* return code, after logger.Error(msg) when there is one
Return(code, kind, msgs) ==
    /\ pc' = "exited"
    /\ exitCode' = code
    /\ err' = kind
    /\ stderr' = stderr \o msgs
    /\ handles' = RunDeferred(handles, defers)
    /\ defers' = <<>>

\* Lines 201-233: the flags, the guard on -n, ParseArgs, the override of
\* ContextSize
RunConfigure ==
    /\ pc = "Run"
    /\ LET a == IF Len(ctxArgs) > 0 THEN Tail(ctxArgs) ELSE ctxArgs
           f == ParseFlags(NewFlagSet, a)
           r == ParseArgs(f.rest, execPath)
       IN  IF f.err # Nil
           THEN /\ Return(1, "flag parse error", <<"Flag parse error">>)
                /\ UNCHANGED <<args, config, outputFile>>
           ELSE IF f.n < 0
           THEN /\ Return(1, "negative context size",
                          <<"Context size cannot be negative">>)
                /\ UNCHANGED <<args, config, outputFile>>
           ELSE IF r.err # Nil
           THEN /\ Return(1, r.err, <<"Configuration error">>)
                /\ args' = f.rest
                /\ UNCHANGED <<config, outputFile>>
           ELSE /\ args' = f.rest
                /\ config' = <<ApplyContextSize(r.config[1], f.n)>>
                /\ outputFile' = f.o
                /\ pc' = "create"
                /\ UNCHANGED <<err, stderr, handles, defers, exitCode>>
    /\ UNCHANGED <<ctxArgs, execPath, contextSize, stdout, outFile, searchVars,
                   snippetVars>>

\* No -o: outWriter = ctx.Stdout
RunNoOutputFile ==
    /\ pc = "create"
    /\ outputFile = <<>>
    /\ pc' = "open"
    /\ UNCHANGED <<ctxArgs, execPath, args, config, err, outputFile, contextSize,
                   stdout, stderr, outFile, handles, defers, exitCode,
                   searchVars, snippetVars>>

\* ctx.FileCreator(*outputFile) succeeds: the file exists and is empty
RunCreateOK ==
    /\ pc = "create"
    /\ outputFile # <<>>
    /\ outFile' = [created |-> TRUE, content |-> <<>>]
    /\ handles' = [handles EXCEPT !["out"].opened = @ + 1]
    /\ defers' = DeferClose(defers, "out")
    /\ pc' = "open"
    /\ UNCHANGED <<ctxArgs, execPath, args, config, err, outputFile, contextSize,
                   stdout, stderr, exitCode, searchVars, snippetVars>>

\* ctx.FileCreator(*outputFile) fails
RunCreateFail ==
    /\ pc = "create"
    /\ outputFile # <<>>
    /\ Return(1, "file create error", <<"Failed to create output file">>)
    /\ UNCHANGED <<ctxArgs, execPath, args, config, outputFile, contextSize,
                   stdout, outFile, searchVars, snippetVars>>

\* ctx.FileReader(config.InputFilePath) succeeds; SearchStream is called
RunOpenOK ==
    /\ pc = "open"
    /\ handles' = [handles EXCEPT !["in"].opened = @ + 1]
    /\ defers' = DeferClose(defers, "in")
    /\ queries' = config[1].Queries
    /\ contextSize' = config[1].ContextSize
    /\ pc' = "SearchStream"
    /\ UNCHANGED <<ctxArgs, execPath, args, config, err, outputFile, stdout,
                   stderr, outFile, exitCode, reader, scanned, results,
                   snippetVars>>

\* ctx.FileReader(config.InputFilePath) fails
RunOpenFail ==
    /\ pc = "open"
    /\ Return(1, "file open error", <<"Failed to open input file">>)
    /\ UNCHANGED <<ctxArgs, execPath, args, config, outputFile, contextSize,
                   stdout, outFile, searchVars, snippetVars>>

\* SearchStream returned an error
RunSearchFailed ==
    /\ pc = "searched"
    /\ err # Nil
    /\ Return(1, err, <<"Search failed">>)
    /\ UNCHANGED <<ctxArgs, execPath, args, config, outputFile, contextSize,
                   stdout, outFile, searchVars, snippetVars>>

\* WriteResults(outWriter, results, config.Queries); return 0
RunWriteResults ==
    /\ pc = "searched"
    /\ err = Nil
    /\ LET out == WriteResults(results, config[1].Queries)
       IN  /\ stdout' = stdout \o out
           /\ outFile' = IF outFile.created
                         THEN [outFile EXCEPT !.content = @ \o out]
                         ELSE outFile
    /\ Return(0, Nil, <<>>)
    /\ UNCHANGED <<ctxArgs, execPath, args, config, outputFile, contextSize,
                   searchVars, snippetVars>>

\* extractSnippet panicked: the deferred calls run and the process dies (exit
\* status 2 of the Go runtime), Run returning nothing
RunPanic ==
    /\ pc = "panic"
    /\ pc' = "crashed"
    /\ exitCode' = 2
    /\ handles' = RunDeferred(handles, defers)
    /\ defers' = <<>>
    /\ UNCHANGED <<ctxArgs, execPath, args, config, err, outputFile, contextSize,
                   stdout, stderr, outFile, searchVars, snippetVars>>

\* Argument bytes: "app", "out", "-n", "-o", "--", "-z", "-n=2" and numbers
Prog       == <<97, 112, 112>>
OutName    == <<111, 117, 116>>
DashN      == <<Minus, 110>>
DashO      == <<Minus, 111>>
DashDash   == <<Minus, Minus>>
DashZ      == <<Minus, 122>>
DashNEq2   == <<Minus, 110, Equals, 50>>
Num0       == <<48>>
Num1       == <<49>>
NumMinus1  == <<Minus, 49>>
NumMaxInt  == <<50, 49, 52, 55, 52, 56, 51, 54, 52, 55>>
NumTooBig  == <<50, 49, 52, 55, 52, 56, 51, 54, 52, 56>>

RunArgLists ==
    { <<>>,
      <<Prog>>,
      <<Prog, InputName>>,
      <<Prog, DashN, Num0, InputName>>,
      <<Prog, DashN, Num1, InputName>>,
      <<Prog, DashNEq2, InputName>>,
      <<Prog, DashN, NumMinus1, InputName>>,
      <<Prog, DashN, OtherName, InputName>>,
      <<Prog, DashN, NumMaxInt, InputName>>,
      <<Prog, DashN, NumTooBig, InputName>>,
      <<Prog, DashN>>,
      <<Prog, DashZ, InputName>>,
      <<Prog, DashO, OutName, InputName>>,
      <<Prog, DashO, OutName, DashN, Num1, InputName>>,
      <<Prog, DashO, OutName, DashN, NumMaxInt, InputName>>,
      <<Prog, DashO, OutName>>,
      <<Prog, DashN, Num1, DashN, Num0, InputName>>,
      <<Prog, DashDash, InputName>>,
      <<Prog, InputName, DashN, Num1>> }

\* "app_a", "app_a_b", "app__b_a.exe", "/bin/app_a_a", "app", "app_"
RunExecPaths ==
    { <<97, 112, 112, Underscore, 97>>,
      <<97, 112, 112, Underscore, 97, Underscore, 98>>,
      <<97, 112, 112, Underscore, Underscore, 98, Underscore, 97, Dot, 101, 120, 101>>,
      <<Slash, 98, 105, 110, Slash, 97, 112, 112, Underscore, 97, Underscore, 97>>,
      <<97, 112, 112>>,
      <<97, 112, 112, Underscore>> }

RunReaderBytes == {97, 98, Newline}                \* a b \n

InitRun ==
    /\ pc = "Run"
    /\ ctxArgs \in RunArgLists
    /\ execPath \in RunExecPaths
    /\ reader \in SeqsUpTo(RunReaderBytes, MaxRunReaderLen)
    /\ args = <<>> /\ config = <<>> /\ err = Nil /\ outputFile = <<>>
    /\ scanned = 0 /\ queries = <<>> /\ contextSize = 0 /\ results = <<>>
    /\ stdout = <<>> /\ stderr = <<>> /\ outFile = NoFile
    /\ handles = NoHandles /\ defers = <<>> /\ exitCode = 0
    /\ IdleSnippet

NextRun ==
    \/ RunConfigure
    \/ RunNoOutputFile \/ RunCreateOK \/ RunCreateFail
    \/ RunOpenOK \/ RunOpenFail
    \/ SearchStart \/ ScanNext \/ ScanEOF \/ ScanError
    \/ RunSearchFailed \/ RunWriteResults \/ RunPanic

SpecRun == InitRun /\ [][NextRun]_vars

-----------------------------------------------------------------------------
(* Claims about ParseArgs (SpecParse)                                      *)

\* The executable's name: its base name with the extension stripped
ExecName(path) ==
    LET b == Base(path) IN SubSeq(b, 1, Len(b) - Len(Ext(b)))

NumUnderscores(name) == Cardinality({i \in DOMAIN name : name[i] = Underscore})

\* The non-empty segments after the first, as <<first, last>> positions: the
\* maximal underscore-free runs that follow an underscore
TrailingRuns(name) ==
    LET n == Len(name)
    IN  {r \in (2..n) \X (2..n) :
            /\ r[1] <= r[2]
            /\ \A k \in r[1]..r[2] : name[k] # Underscore
            /\ name[r[1] - 1] = Underscore
            /\ (r[2] = n \/ name[r[2] + 1] = Underscore)}

\* The position of a run among the runs, by where it starts
RunRank(runs, r) == 1 + Cardinality({x \in runs : x[1] < r[1]})

\* C2: for an executable name with at least 2 underscore-separated segments and
\* a non-empty segment after the first, and at least one positional argument,
\* ParseArgs succeeds; its Queries are exactly the non-empty segments after the
\* first, in their order, and InputFilePath is the first positional argument.
C2_QueriesAreTrailingSegments ==
    LET name == ExecName(execPath)
        runs == TrailingRuns(name)
    IN  (pc = "parsed" /\ Len(args) >= 1 /\ NumUnderscores(name) >= 1 /\ runs # {})
        => /\ err = Nil
           /\ config # <<>>
           /\ config[1].InputFilePath = args[1]
           /\ Len(config[1].Queries) = Cardinality(runs)
           /\ \A r \in runs :
                  config[1].Queries[RunRank(runs, r)] = SubSeq(name, r[1], r[2])

\* A name whose segments after the first are "a", "" and "b" was parsed
C2_Witness ==
    /\ pc = "parsed" /\ err = Nil /\ config # <<>>
    /\ Len(config[1].Queries) = 2
    /\ NumUnderscores(ExecName(execPath)) = 3

\* C3: ParseArgs returns an error and no configuration whenever (a) there is no
\* positional argument, whatever the executable name, or (b) the name has
\* fewer than 2 underscore-separated segments, or (c) every segment after the
\* first is empty.
C3_ParseArgsRejects ==
    LET name == ExecName(execPath)
        a == args = <<>>
        b == NumUnderscores(name) = 0
        c == NumUnderscores(name) >= 1 /\ TrailingRuns(name) = {}
    IN  (pc = "parsed" /\ (a \/ b \/ c)) => (err # Nil /\ config = <<>>)

\* A name with a positional argument and two underscores, every segment after
\* the first empty, was rejected for having no queries
C3_Witness ==
    /\ pc = "parsed" /\ args # <<>>
    /\ NumUnderscores(ExecName(execPath)) = 2
    /\ TrailingRuns(ExecName(execPath)) = {}
    /\ err = "no queries" /\ config = <<>>

-----------------------------------------------------------------------------
(* Claims about extractSnippet (SpecSnippet)                               *)

MatchesAt(lr, qr, i) ==
    /\ i + Len(qr) <= Len(lr)
    /\ \A j \in 1..Len(qr) : lr[i + j] = qr[j]

Occurs(lr, qr) == \E i \in 0..Len(lr) : MatchesAt(lr, qr, i)

\* The start of the leftmost occurrence (0-based)
Leftmost(lr, qr) ==
    CHOOSE i \in 0..Len(lr) :
        MatchesAt(lr, qr, i) /\ \A k \in 0..(i - 1) : ~MatchesAt(lr, qr, k)

Min(a, b) == IF a <= b THEN a ELSE b

\* The window [max(0, s - n), min(len, s + qLen + n)) of the line, for s the
\* leftmost occurrence; written so that no sum leaves the integers of the model
Window(lr, qr, n) ==
    LET s    == Leftmost(lr, qr)
        from == IF n >= s THEN 0 ELSE s - n
        to   == IF n >= Len(lr) - s - Len(qr) THEN Len(lr) ELSE s + Len(qr) + n
    IN  Slice(lr, from, to)

\* C5: for every line, every query occurring in it and every context width
\* n >= 0, extractSnippet returns the characters of the line from
\* max(0, s - n) up to min(lineLength, s + queryLength + n); the snippet has at
\* most queryLength + 2n characters, no index outside the line is accessed,
\* and n = 0 yields exactly the matched substring.
C5_SnippetIsWindow ==
    LET qr == Runes(query)
    IN  (pc \in {"returned", "panic"} /\ contextSize >= 0 /\ Occurs(lineRunes, qr))
        => /\ pc = "returned"
           /\ Runes(snippet) = Window(lineRunes, qr, contextSize)
           /\ (contextSize >= Len(lineRunes)
                  \/ Len(Runes(snippet)) <= Len(qr) + 2 * contextSize)
           /\ (contextSize = 0 => Runes(snippet) = qr)

\* The same statement for the widths whose sum with the match's end stays an
\* int: what the code does satisfy
C5_SnippetIsWindowNoOverflow ==
    (contextSize <= MaxInt - Len(lineRunes)) => C5_SnippetIsWindow

\* A snippet was cut on both sides of the match
C5_Witness ==
    /\ pc = "returned" /\ contextSize = 1
    /\ Len(lineRunes) = 4 /\ Len(Runes(query)) = 1
    /\ Occurs(lineRunes, Runes(query))
    /\ Len(Runes(snippet)) = 3
    /\ Leftmost(lineRunes, Runes(query)) = 2

-----------------------------------------------------------------------------
(* Claims about SearchStream (SpecSearch)                                  *)

\* q is a substring of the line: some window of the line's bytes equals q
IsSubstring(l, q) ==
    \E i \in 0..(Len(l) - Len(q)) : SubSeq(l, i + 1, i + Len(q)) = q

\* The lines read so far that contain q, as indices into the lines
MatchingLines(q) ==
    {i \in 1..scanned : IsSubstring(ScanLines(reader)[i], q)}

Scanning == pc = "scan" \/ (pc = "searched" /\ err = Nil)

\* C1: for a query list ParseArgs returns and a stream read without error, the
\* count of each query is the number of lines read that contain it as a
\* substring, after every line and when SearchStream completes: a line that
\* contains the query adds exactly 1, a line that does not adds nothing and
\* leaves the snippet list alone.
C1_CountIsMatchingLines ==
    Scanning =>
        \A q \in Range(queries) :
            /\ results[q].Count = Cardinality(MatchingLines(q))
            /\ (MatchingLines(q) = {} => results[q].Snippets = <<>>)

\* The line "aa" was counted once for the query "a", the line after it not
C1_Witness ==
    /\ pc = "searched" /\ err = Nil
    /\ queries = <<(<<97>>)>>
    /\ ScanLines(reader) = <<(<<97, 97>>), (<<195>>)>>
    /\ results[<<97>>].Count = 1

\* The same, for the query lists that name no query twice
C1_CountIsMatchingLinesDistinct ==
    (Cardinality(Range(queries)) = Len(queries)) => C1_CountIsMatchingLines

\* The i-th smallest element of a finite set of integers
RECURSIVE Sorted(_)
Sorted(S) ==
    IF S = {} THEN <<>>
    ELSE LET m == CHOOSE x \in S : \A y \in S : x <= y
         IN  <<m>> \o Sorted(S \ {m})

\* The snippet of line number i for query q at the scan's context width
SnippetOf(i, q) ==
    ExtractSnippet(Runes(ScanLines(reader)[i]), q, contextSize).str

\* C4: at every point of a scan and in its result, each query's snippet list has
\* at most 10 entries, as many as min(Count, 10), and is the sequence of the
\* snippets of the first min(k, 10) lines containing the query, in line
\* order, k being the number of matching lines read so far.
C4_SnippetsOfFirstTen ==
    Scanning =>
        \A q \in Range(queries) :
            LET m == Sorted(MatchingLines(q))
                k == Len(m)
                sn == results[q].Snippets
            IN  /\ Len(sn) <= 10
                /\ Len(sn) = Min(results[q].Count, 10)
                /\ Len(sn) = Min(k, 10)
                /\ \A i \in 1..Min(Len(sn), k) : sn[i] = SnippetOf(m[i], q)

\* An eleventh matching line was counted and left the ten snippets as they were
C4_Witness ==
    /\ Scanning
    /\ Len(queries) = 1
    /\ results[queries[1]].Count = 11
    /\ Len(results[queries[1]].Snippets) = 10
    /\ Cardinality(Range(results[queries[1]].Snippets)) = 2

\* The same, for the query lists that name no query twice
C4_SnippetsOfFirstTenDistinct ==
    (Cardinality(Range(queries)) = Len(queries)) => C4_SnippetsOfFirstTen

\* A string is valid UTF-8 when decoding and encoding it gives it back
ValidUTF8(str) == String(Runes(str)) = str

\* C10: every snippet recorded for a query is non-empty and contains the query
\* as a contiguous run of characters.
C10_SnippetContainsQuery ==
    Scanning =>
        \A q \in Range(queries) :
            \A i \in DOMAIN results[q].Snippets :
                /\ results[q].Snippets[i] # <<>>
                /\ Occurs(Runes(results[q].Snippets[i]), Runes(q))

\* The two-byte query U+00E9 was found in the line "a" U+00E9
C10_Witness ==
    /\ pc = "searched" /\ err = Nil
    /\ queries = <<(<<195, 169>>)>>
    /\ reader = <<97, 195, 169>>
    /\ contextSize = 0
    /\ results[<<195, 169>>].Snippets = <<(<<195, 169>>)>>

\* The same, for the queries that are valid UTF-8
C10_SnippetContainsValidQuery ==
    (\A i \in DOMAIN queries : ValidUTF8(queries[i])) => C10_SnippetContainsQuery

-----------------------------------------------------------------------------
(* Claims about Run (SpecRun)                                              *)

Succeeded == pc = "exited" /\ exitCode = 0
Failed    == pc = "exited" /\ err # Nil

\* C6: a run that ends in an error returns 1, has logged a message to the
\* error sink and has produced no output at all: nothing on the primary
\* output sink, and the -o file neither created nor written.
C6_NoOutputOnError ==
    Failed => /\ exitCode = 1
              /\ stderr # <<>>
              /\ stdout = <<>>
              /\ ~outFile.created
              /\ outFile.content = <<>>

\* A run with -o failed on a stream read error
C6_Witness ==
    /\ Failed /\ err = "stream read error"
    /\ outputFile # <<>>
    /\ stderr = <<"Search failed">>

\* What does hold of a failed run: exit code 1, a message, and nothing written
\* to either sink (the -o file may exist, empty)
C6_NothingWrittenOnError ==
    Failed => /\ exitCode = 1
              /\ stderr # <<>>
              /\ stdout = <<>>
              /\ outFile.content = <<>>

\* C7: on every exit path of Run every handle obtained from FileCreator or
\* FileReader has been closed exactly once when Run returns, and no handle is
\* closed that was never opened.
C7_HandlesClosedOnce ==
    \A h \in DOMAIN handles :
        /\ handles[h].closed <= handles[h].opened
        /\ (pc \in {"exited", "crashed"} => handles[h].closed = handles[h].opened)
        /\ handles[h].opened <= 1

\* A stream read error after both files were opened: both are closed
C7_Witness ==
    /\ Failed /\ err = "stream read error"
    /\ handles["out"] = [opened |-> 1, closed |-> 1]
    /\ handles["in"] = [opened |-> 1, closed |-> 1]

\* The first line of the block of query number i: the blocks before it have
\* a header, a count, a separator and one line per snippet each
RECURSIVE BlockStart(_, _)
BlockStart(qs, i) ==
    IF i = 1 THEN 1
    ELSE BlockStart(qs, i - 1) + 3 + Len(results[qs[i - 1]].Snippets)

\* Some line of the input contains q
SomeLineContains(q) ==
    \E i \in DOMAIN ScanLines(reader) : IsSubstring(ScanLines(reader)[i], q)

\* C8: a successful run writes exactly one block per configured query, in the
\* configured order, also for a query that matched no line (count 0, no
\* snippet line); a block is a header naming the query, a count line, the
\* snippets numbered from 1 in stored order, and a separator.  The keys of the
\* ResultSet are the configured queries.
C8_OneBlockPerQuery ==
    /\ Scanning => DOMAIN results = Range(queries)
    /\ Succeeded =>
        LET qs == config[1].Queries
        IN  /\ DOMAIN results = Range(qs)
            /\ Len(stdout) = BlockStart(qs, Len(qs) + 1) - 1
            /\ outFile.created => outFile.content = stdout
            /\ \A i \in DOMAIN qs :
                LET b == BlockStart(qs, i)
                    r == results[qs[i]]
                    n == Len(r.Snippets)
                IN  /\ stdout[b] = [kind |-> "header", num |-> 0, text |-> qs[i]]
                    /\ stdout[b + 1] = [kind |-> "count", num |-> r.Count, text |-> <<>>]
                    /\ \A k \in 1..n :
                        stdout[b + 1 + k] =
                            [kind |-> "snippet", num |-> k, text |-> r.Snippets[k]]
                    /\ stdout[b + 2 + n].kind = "separator"
                    /\ ~SomeLineContains(qs[i]) => (r.Count = 0 /\ n = 0)

\* Two queries, the first matching two lines and the second none: 8 lines
C8_Witness ==
    /\ Succeeded
    /\ Len(config[1].Queries) = 2
    /\ results[config[1].Queries[1]].Count = 2
    /\ results[config[1].Queries[2]].Count = 0
    /\ Len(stdout) = 8
    /\ outFile.created

\* The values of the -n flags among the flags that precede the first
\* positional argument, in order
RECURSIVE SuppliedWidths(_, _)
SuppliedWidths(a, i) ==
    IF i > Len(a) THEN <<>>
    ELSE IF a[i] = DashN /\ i < Len(a)
         THEN <<a[i + 1]>> \o SuppliedWidths(a, i + 2)
    ELSE IF Len(a[i]) > 3 /\ SubSeq(a[i], 1, 3) = <<Minus, 110, Equals>>
         THEN <<SubSeq(a[i], 4, Len(a[i]))>> \o SuppliedWidths(a, i + 1)
    ELSE IF a[i] = DashO /\ i < Len(a) THEN SuppliedWidths(a, i + 2)
    ELSE <<>>

\* The context width the command line asks for: the last -n, or 20
WantedWidth ==
    LET w == SuppliedWidths(ctxArgs, 2)
    IN  IF w = <<>> THEN 20 ELSE ParseInt(w[Len(w)]).v

\* C9: in a successful run every snippet is extracted with the width given by
\* -n when it is supplied and with 20 when it is not; ParseArgs itself returns
\* ContextSize = 20 and Run overrides it before the scan.
C9_WidthIsFlagValue ==
    /\ (pc \in {"SearchStream", "scan", "searched", "panic"} \/ Succeeded)
          => contextSize = WantedWidth
    /\ (pc # "Run" /\ ParseArgs(args, execPath).err = Nil)
          => ParseArgs(args, execPath).config[1].ContextSize = 20
    /\ pc \in {"create", "open"} => config[1].ContextSize = WantedWidth
    /\ Succeeded =>
          \A q \in DOMAIN results :
              \A i \in DOMAIN results[q].Snippets :
                  \E j \in DOMAIN ScanLines(reader) :
                      /\ IsSubstring(ScanLines(reader)[j], q)
                      /\ results[q].Snippets[i] =
                           ExtractSnippet(Runes(ScanLines(reader)[j]), q,
                                          WantedWidth).str

\* A run with -n 0 wrote the snippet "a" of the line "ab"
C9_Witness ==
    /\ Succeeded
    /\ SuppliedWidths(ctxArgs, 2) # <<>>
    /\ contextSize = 0
    /\ ScanLines(reader) = <<(<<97, 98>>)>>
    /\ <<97>> \in DOMAIN results
    /\ results[<<97>>].Snippets = <<(<<97>>)>>

=============================================================================
